---------------------------- MODULE Spec2Model ----------------------------
(***************************************************************************)
(* Model of the audio backend of ChibiGameEngine: the path->key utility of *)
(* IAudio (IAudio.h) and the OpenALAudio backend (OpenALAudio.h/.cpp),     *)
(* together with the part of the OpenAL library state the backend relies   *)
(* on (source names, their play state, gain and looping flag, buffers).    *)
(***************************************************************************)
EXTENDS Integers, Sequences, FiniteSets, TLC

(***************************************************************************)
(* IEEE-754 binary32 arithmetic (the C++ type float).  A float is the pair *)
(* <<m, e>> standing for m * 2^e, normalised so that 2^23 <= |m| < 2^24,   *)
(* or <<0, 0>> for zero.  Every operation rounds to nearest, ties to even. *)
(* Subnormals, infinities and NaN do not occur for the magnitudes used.    *)
(***************************************************************************)
F32Zero == <<0, 0>>

Abs(n) == IF n < 0 THEN -n ELSE n

Sign(n) == IF n < 0 THEN -1 ELSE 1

\* number of significant bits of n, 0 <= n < 2^31, by binary search
BitLen2(n) == IF n >= 2 THEN 2 ELSE n

BitLen4(n) == IF n >= 4 THEN 2 + BitLen2(n \div 4) ELSE BitLen2(n)

BitLen8(n) == IF n >= 16 THEN 4 + BitLen4(n \div 16) ELSE BitLen4(n)

BitLen16(n) == IF n >= 256 THEN 8 + BitLen8(n \div 256) ELSE BitLen8(n)

BitLen(n) == IF n >= 65536 THEN 16 + BitLen16(n \div 65536) ELSE BitLen16(n)

\* the float nearest to sgn * (n + f) * 2^e, where 0 <= n < 2^30 and f is a
\* fraction with 0 < f < 1 when sticky and 0 otherwise (n has >= 26 bits then)
F32Round(sgn, n, e, sticky) ==
    IF n = 0 THEN F32Zero
    ELSE LET b == BitLen(n) IN
         IF b <= 24 THEN <<sgn * n * 2^(24 - b), e - (24 - b)>>
         ELSE LET s    == b - 24
                  q    == n \div 2^s
                  r    == n % 2^s
                  half == 2^(s - 1)
                  up   == (r > half) \/ (r = half /\ (sticky \/ q % 2 = 1))
                  m    == IF up THEN q + 1 ELSE q
              IN IF m = 2^24 THEN <<sgn * 2^23, e + s + 1>>
                             ELSE <<sgn * m, e + s>>

\* static_cast<float>(int), |n| < 2^30
F32FromInt(n) == F32Round(Sign(n), Abs(n), 0, FALSE)

\* 7 * k more quotient bits of r / d by long division, seven bits a step,
\* where r < d < 2^24; result <<quotient, remainder>>
RECURSIVE LongDiv(_, _, _, _)
LongDiv(r, d, k, q) ==
    IF k = 0 THEN <<q, r>>
    ELSE LongDiv((128 * r) % d, d, k - 1, 128 * q + ((128 * r) \div d))

\* a / b, b nonzero
F32Div(a, b) ==
    IF a[1] = 0 THEN F32Zero
    ELSE LET ma == Abs(a[1])
             mb == Abs(b[1])
             qr == LongDiv(ma % mb, mb, 4, ma \div mb)
         IN F32Round(Sign(a[1]) * Sign(b[1]), qr[1], a[2] - b[2] - 28, qr[2] # 0)

\* a * b
F32Mul(a, b) ==
    IF a[1] = 0 \/ b[1] = 0 THEN F32Zero
    ELSE LET ma == Abs(a[1])
             mb == Abs(b[1])
             a1 == ma \div 4096
             a0 == ma % 4096
             b1 == mb \div 4096
             b0 == mb % 4096
             lo == a0 * b0
             M  == a1 * b0 + a0 * b1 + (lo \div 4096)
             H  == a1 * b1 + (M \div 4096)
             L1 == M % 4096
             N  == H * 16 + (L1 \div 256)
             st == (L1 % 256 # 0) \/ (lo % 4096 # 0)
         IN F32Round(Sign(a[1]) * Sign(b[1]), N, a[2] + b[2] + 20, st)

\* a + b
F32Add(a, b) ==
    IF a[1] = 0 THEN b
    ELSE IF b[1] = 0 THEN a
    ELSE LET x  == IF a[2] >= b[2] THEN a ELSE b
             y  == IF a[2] >= b[2] THEN b ELSE a
             d  == x[2] - y[2]
         IN IF d > 26 THEN x
            ELSE LET X2 == Abs(x[1]) * 16
                     Y8 == Abs(y[1]) * 8
                     Bq == Y8 \div 2^d
                     st == IF Y8 % 2^d # 0 THEN 1 ELSE 0
                     S  == Sign(x[1]) * X2 + Sign(y[1]) * (2 * Bq + st)
                 IN F32Round(Sign(S), Abs(S), x[2] - 4, FALSE)

F32Neg(a) == <<-a[1], a[2]>>

F32Sub(a, b) == F32Add(a, F32Neg(b))

\* a < b
F32Lt(a, b) ==
    IF a[1] <= 0 /\ b[1] >= 0 THEN a[1] # b[1]
    ELSE IF a[1] >= 0 /\ b[1] <= 0 THEN FALSE
    ELSE IF a[1] > 0 THEN a[2] < b[2] \/ (a[2] = b[2] /\ a[1] < b[1])
    ELSE a[2] > b[2] \/ (a[2] = b[2] /\ a[1] < b[1])

\* std::min(a, b) and std::max(a, b)
F32Min(a, b) == IF F32Lt(b, a) THEN b ELSE a

F32Max(a, b) == IF F32Lt(a, b) THEN b ELSE a

\* static_cast<int>(float): truncation toward zero
F32ToInt(a) ==
    IF a[2] >= 0 THEN a[1] * 2^(a[2])
    ELSE IF -a[2] >= 24 THEN 0
    ELSE Sign(a[1]) * (Abs(a[1]) \div 2^(-a[2]))

F32One == F32FromInt(1)

\* the literals 100.0f, 1000.0f, 0.1f and 0.016f
F32Hundred == F32FromInt(100)

F32Thousand == F32FromInt(1000)

F32Tenth == F32Div(F32FromInt(1), F32FromInt(10))

\* a tick that counts the remaining time up
F32TickBackwards == F32Div(F32FromInt(-16), F32Thousand)

F32Tick == F32Div(F32FromInt(16), F32Thousand)


(***************************************************************************)
(* Bounds of the model.                                                    *)
(***************************************************************************)
\* keys GenerateAudioKey may hand out from the counter
MaxKey == 3

\* OpenAL source names
MaxSources == 2

\* playback instances created during one run
MaxInst == 2

\* kVolumeUp / kVolumeDown steps taken during one run
MaxVolSteps == 1

\* consecutive fade update ticks followed after a fade request
MaxTicks == 4

\* calls of one run of the full specification
MaxCalls == 4

\* fade update ticks in a row of a host that ticks a long fade to its end
MaxFadeTicks == 36

(***************************************************************************)
(* Inputs.  A file path is the sequence of its characters.                 *)
(***************************************************************************)
PathEmpty == <<>>

PathWav == <<"a", ".", "W", "A", "V">>

PathMp3 == <<"b", ".", "m", "p", "3">>

Paths == {PathEmpty, PathWav, PathMp3}

Keys == 0..MaxKey

Handles == 1..MaxSources

\* IAudio::EAudioAction
EAudioAction == {"kStop", "kResume", "kPause", "kReplay", "kRewind", "kMute",
                 "kUnmute", "kLoop", "kStopLoop", "kVolumeUp", "kVolumeDown"}

\* arguments of SetMusicVolume / SetSoundVolume tried in the main specification
VolumeInputs == {-10, 53, 150}

\* millisecond arguments of the fades
FadeInputs == {0, 40}

\* what a read of an uninitialised float (times 100, as int) may yield
GarbageVolumes == {0, 77}

VARIABLES
    m_NextAudioKey,          \* IAudio: next key to hand out
    m_AudioKeyToPath,        \* IAudio: key -> path table
    m_LastKeyGeneration,     \* IAudio: one-entry cache [path, key]
    m_Device,                \* "null", "open" or "closed" (dangling)
    m_Context,               \* "null", "open" or "closed" (dangling)
    m_AudioBuffers,          \* key -> [buffer, sources], with the path decoded (history)
    m_CurrentMusicPathKey,
    m_CurrentMusicSource,
    m_Initialized,
    m_MusicVolume,
    m_MusicPaused,
    m_MusicFading,
    m_MusicFinishedCallback, \* TRUE when a callback is set
    m_FadeStartVolume,
    m_FadeTargetVolume,
    m_FadeTimeRemaining,
    m_FadeDuration,
    alSources,               \* OpenAL: source name -> source object or NoSource
    alBuffers,               \* OpenAL: the buffer names in use
    nextInst,                \* history: playback instances created so far, plus one
    volSteps,                \* history: kVolumeUp / kVolumeDown steps taken
    returned,                \* history: path -> keys GenerateAudioKey returned for it
    lastCall,                \* history: the last operation, its arguments and result
    calls                    \* history: operations called so far, where a run counts them

iaudioVars == <<m_NextAudioKey, m_AudioKeyToPath, m_LastKeyGeneration>>

musicVars == <<m_CurrentMusicPathKey, m_CurrentMusicSource, m_MusicPaused, m_MusicFading>>

fadeVars == <<m_FadeStartVolume, m_FadeTargetVolume, m_FadeTimeRemaining, m_FadeDuration>>

deviceVars == <<m_Device, m_Context, m_Initialized>>

alVars == <<alSources, alBuffers>>

vars == <<iaudioVars, deviceVars, m_AudioBuffers, musicVars, m_MusicVolume,
          m_MusicFinishedCallback, fadeVars, alVars, nextInst, volSteps, returned, lastCall,
          calls>>

(***************************************************************************)
(* IAudio::GenerateAudioKey.  The result carries the key returned and the  *)
(* values the three IAudio members have after the call.                    *)
(***************************************************************************)
\* a key generator that hands out the lowest key not in the table
GenerateAudioKeyReuse(path) ==
    IF m_LastKeyGeneration.path = path
    THEN [key |-> m_LastKeyGeneration.key, next |-> m_NextAudioKey,
          table |-> m_AudioKeyToPath, cache |-> m_LastKeyGeneration]
    ELSE IF \E k \in DOMAIN m_AudioKeyToPath : m_AudioKeyToPath[k] = path
    THEN LET k == CHOOSE k \in DOMAIN m_AudioKeyToPath : m_AudioKeyToPath[k] = path
         IN [key |-> k, next |-> m_NextAudioKey, table |-> m_AudioKeyToPath,
             cache |-> [path |-> path, key |-> k]]
    ELSE LET newKey == CHOOSE k \in 1..(MaxKey + 1) :
                           /\ k \notin DOMAIN m_AudioKeyToPath
                           /\ \A j \in 1..(k - 1) : j \in DOMAIN m_AudioKeyToPath
         IN [key |-> newKey, next |-> m_NextAudioKey + 1,
             table |-> m_AudioKeyToPath @@ (newKey :> path),
             cache |-> [path |-> path, key |-> newKey]]

GenerateAudioKey(path) ==
    IF m_LastKeyGeneration.path = path
    THEN [key |-> m_LastKeyGeneration.key, next |-> m_NextAudioKey,
          table |-> m_AudioKeyToPath, cache |-> m_LastKeyGeneration]
    ELSE IF \E k \in DOMAIN m_AudioKeyToPath : m_AudioKeyToPath[k] = path
    THEN LET k == CHOOSE k \in DOMAIN m_AudioKeyToPath : m_AudioKeyToPath[k] = path
         IN [key |-> k, next |-> m_NextAudioKey, table |-> m_AudioKeyToPath,
             cache |-> [path |-> path, key |-> k]]
    ELSE [key |-> m_NextAudioKey, next |-> m_NextAudioKey + 1,
          table |-> m_AudioKeyToPath @@ (m_NextAudioKey :> path),
          cache |-> [path |-> path, key |-> m_NextAudioKey]]

\* the members after a call, and the record of the key it returned
ApplyKey(g, path) ==
    /\ g.key <= MaxKey
    /\ m_NextAudioKey' = g.next
    /\ m_AudioKeyToPath' = g.table
    /\ m_LastKeyGeneration' = g.cache
    /\ returned' = [returned EXCEPT ![path] = @ \cup {g.key}]

(***************************************************************************)
(* The OpenAL source and buffer primitives the backend calls.  A call on a *)
(* name that is not a source raises AL_INVALID_NAME and changes nothing.   *)
(***************************************************************************)
NoSource == [state |-> "none"]

IsSource(al, h) == h \in Handles /\ al[h] # NoSource

alSourcePlay(al, h) ==
    IF IsSource(al, h) THEN [al EXCEPT ![h].state = "playing"] ELSE al

\* a stop that leaves the source running
alSourceStopIgnored(al, h) == al

alSourceStop(al, h) ==
    IF IsSource(al, h) /\ al[h].state # "initial"
    THEN [al EXCEPT ![h].state = "stopped"] ELSE al

\* a pause that leaves the source running
alSourcePauseIgnored(al, h) == al

alSourcePause(al, h) ==
    IF IsSource(al, h) /\ al[h].state = "playing"
    THEN [al EXCEPT ![h].state = "paused"] ELSE al

alSourceRewind(al, h) ==
    IF IsSource(al, h) THEN [al EXCEPT ![h].state = "initial"] ELSE al

\* alSourcef(h, AL_GAIN, g): a negative gain is AL_INVALID_VALUE
alSourceGain(al, h, g) ==
    IF IsSource(al, h) /\ g[1] >= 0 THEN [al EXCEPT ![h].gain = g] ELSE al

\* alSourcei(h, AL_LOOPING, flag)
alSourceLooping(al, h, flag) ==
    IF IsSource(al, h) THEN [al EXCEPT ![h].looping = flag] ELSE al

\* a delete that leaves the source in place
alDeleteSourcesLeak(al, h) == al

alDeleteSources(al, h) ==
    IF IsSource(al, h) THEN [al EXCEPT ![h] = NoSource] ELSE al

\* alGenBuffers: a name not in use
alGenBuffers(bufs) == CHOOSE b \in 1..(Cardinality(bufs) + 1) : b \notin bufs

\* OpenALAudio::CreateSource followed by alSourcei(source, AL_BUFFER, buffer):
\* the object a fresh source name h stands for
CreateSource(buffer, music) ==
    [state |-> "initial", gain |-> F32One, looping |-> FALSE,
     buffer |-> buffer, inst |-> nextInst, music |-> music]

\* the names alGenSources may return: any name that is not a source,
\* names of deleted sources included
FreeHandles(al) == {h \in Handles : al[h] = NoSource}

(***************************************************************************)
(* OpenALAudio::GetMusicType: the extension after the last '.', lowered.   *)
(***************************************************************************)
UpperCase == <<"A", "B", "C", "D", "E", "F", "G", "H", "I", "J", "K", "L", "M",
               "N", "O", "P", "Q", "R", "S", "T", "U", "V", "W", "X", "Y", "Z">>

LowerCase == <<"a", "b", "c", "d", "e", "f", "g", "h", "i", "j", "k", "l", "m",
               "n", "o", "p", "q", "r", "s", "t", "u", "v", "w", "x", "y", "z">>

\* a tolower that leaves every character as it is
tolowerKeep(c) == c

tolower(c) ==
    IF \E i \in 1..26 : UpperCase[i] = c
    THEN LowerCase[CHOOSE i \in 1..26 : UpperCase[i] = c]
    ELSE c

\* std::string::find_last_of('.'), 0 standing for npos, positions from 1
FindLastDot(path) ==
    IF \E i \in 1..Len(path) : path[i] = "."
    THEN CHOOSE i \in 1..Len(path) : path[i] = "." /\ \A j \in (i+1)..Len(path) : path[j] # "."
    ELSE 0

(***************************************************************************)
(* Paths for format detection: a stem, a '.', and an extension written in  *)
(* lower case, in upper case or with a leading capital; and paths with no  *)
(* '.' at all.                                                             *)
(***************************************************************************)
toupper(c) ==
    IF \E i \in 1..26 : LowerCase[i] = c
    THEN UpperCase[CHOOSE i \in 1..26 : LowerCase[i] = c]
    ELSE c

Stems == {<<>>, <<"s", "o", "n", "g">>, <<"t", "r", "a", "c", "k">>,
          <<"a", ".", "w", "a", "v">>, <<"d", ".", "m", "p", "3", "/", "f">>}

Extensions == {<<"w", "a", "v">>, <<"o", "g", "g">>, <<"m", "p", "3">>,
               <<"f", "l", "a", "c">>, <<"m", "i", "d">>, <<"m", "i", "d", "i">>,
               <<"m", "o", "d">>, <<"a", "i", "f", "f">>, <<"r", "a", "w">>,
               <<"x", "y", "z">>, <<"w", "a", "v", "e">>, <<"w", "a">>, <<>>}

Styles == {"lower", "upper", "capital"}

Styled(ext, style) ==
    [i \in 1..Len(ext) |->
        IF style = "upper" \/ (style = "capital" /\ i = 1) THEN toupper(ext[i]) ELSE ext[i]]

TypeInputs == [stem : Stems, ext : Extensions, style : Styles]

PathOf(input) == input.stem \o <<".">> \o Styled(input.ext, input.style)

\* paths with no '.': their text is no extension, whatever it spells
DotlessPaths == {<<>>, <<"w", "a", "v">>, <<"s", "o", "n", "g", "m", "p", "3">>}

TypePaths == {PathOf(input) : input \in TypeInputs} \cup DotlessPaths


GetMusicType(path) ==
    LET dotPos == FindLastDot(path)
        ext == IF dotPos # 0
               THEN [i \in 1..(Len(path) - dotPos) |-> tolower(path[dotPos + i])]
               ELSE <<>>
    IN IF ext = <<"w", "a", "v">> THEN "kWav"
       ELSE IF ext = <<"o", "g", "g">> THEN "kOgg"
       ELSE IF ext = <<"m", "p", "3">> THEN "kMp3"
       ELSE IF ext = <<"f", "l", "a", "c">> THEN "kFlac"
       ELSE IF ext = <<"m", "i", "d">> \/ ext = <<"m", "i", "d", "i">> THEN "kMidi"
       ELSE IF ext = <<"m", "o", "d">> THEN "kMod"
       ELSE IF ext = <<"a", "i", "f", "f">> THEN "kAiff"
       ELSE IF ext = <<"r", "a", "w">> THEN "kRaw"
       ELSE "kOthers"

(***************************************************************************)
(* OpenALAudio::LoadWAVFile.  fileOk says whether the file at the path     *)
(* opens and decodes as WAV data with at least one frame; the empty path   *)
(* never opens.  The result names the decoder that ran.                    *)
(***************************************************************************)
LoadWAVFile(path, fileOk) ==
    [ok |-> fileOk /\ path # PathEmpty, decoder |-> "wav"]

\* a play goes on without asking whether there is a buffer to play
LoadedAnyway(have, load) == TRUE

\* a play goes on when the key has a buffer record or the file has just
\* been decoded into a new buffer, and returns false otherwise
Loaded(have, load) == have \/ load.ok

\* an empty std::unordered_map
EmptyMap == [k \in {} |-> 0]

\* std::unordered_map::erase(key)
Erase(map, key) == [k \in DOMAIN map \ {key} |-> map[k]]

(***************************************************************************)
(* OpenALAudio::GetMusicType as a call of the host.                        *)
(***************************************************************************)
CallGetMusicType(path) ==
    /\ lastCall' = [op |-> "GetMusicType", path |-> path, ret |-> GetMusicType(path)]
    /\ UNCHANGED <<iaudioVars, deviceVars, m_AudioBuffers, musicVars, m_MusicVolume,
                   m_MusicFinishedCallback, fadeVars, alVars, nextInst, volSteps, returned>>

(***************************************************************************)
(* The state after OpenALAudio::OpenALAudio().                             *)
(***************************************************************************)
Init ==
    /\ m_NextAudioKey = 1
    /\ m_AudioKeyToPath = EmptyMap
    /\ m_LastKeyGeneration = [path |-> PathEmpty, key |-> 0]
    /\ m_Device = "null"
    /\ m_Context = "null"
    /\ m_AudioBuffers = EmptyMap
    /\ m_CurrentMusicPathKey = 0
    /\ m_CurrentMusicSource = 0
    /\ m_Initialized = FALSE
    /\ m_MusicVolume = F32One
    /\ m_MusicPaused = FALSE
    /\ m_MusicFading = FALSE
    /\ m_MusicFinishedCallback = FALSE
    /\ m_FadeStartVolume = F32Zero
    /\ m_FadeTargetVolume = F32Zero
    /\ m_FadeTimeRemaining = F32Zero
    /\ m_FadeDuration = F32Zero
    /\ alSources = [h \in Handles |-> NoSource]
    /\ alBuffers = {}
    /\ nextInst = 1
    /\ volSteps = 0
    /\ returned = [p \in Paths |-> {}]
    /\ lastCall = [op |-> "constructor"]
    /\ calls = 0

(***************************************************************************)
(* OpenALAudio::Init.  outcome is the step at which the device set-up      *)
(* fails: "device", "context", "current", or "ok" when none does.          *)
(***************************************************************************)
InitAudio(outcome) ==
    /\ m_Device' = IF outcome = "device" THEN "null"
                   ELSE IF outcome = "ok" THEN "open" ELSE "closed"
    /\ m_Context' = IF outcome = "device" THEN m_Context
                    ELSE IF outcome = "context" THEN "null"
                    ELSE IF outcome = "current" THEN "closed" ELSE "open"
    /\ m_Initialized' = (m_Initialized \/ outcome = "ok")
    /\ lastCall' = [op |-> "Init", ret |-> (outcome = "ok")]
    /\ UNCHANGED <<iaudioVars, m_AudioBuffers, musicVars, m_MusicVolume,
                   m_MusicFinishedCallback, fadeVars, alVars, nextInst, volSteps, returned>>

(***************************************************************************)
(* OpenALAudio::CleanupFinishedSources.  The map is walked in the order    *)
(* 'order' (unordered_map iteration order).  Asking a name that is not a   *)
(* source for its state leaves 'state' uninitialised: such a name counts   *)
(* as stopped exactly when it is in 'junk'.                                *)
(***************************************************************************)
RECURSIVE RemoveStopped(_, _, _)
RemoveStopped(sources, al, junk) ==
    IF sources = <<>> THEN [kept |-> <<>>, al |-> al]
    ELSE LET h == Head(sources)
             stopped == IF IsSource(al, h) THEN al[h].state = "stopped" ELSE h \in junk
             rest == RemoveStopped(Tail(sources),
                                   IF stopped THEN alDeleteSources(al, h) ELSE al, junk)
         IN [kept |-> IF stopped THEN rest.kept ELSE <<h>> \o rest.kept, al |-> rest.al]

RECURSIVE CleanupFinishedSources(_, _, _, _)
CleanupFinishedSources(bufs, al, order, junk) ==
    IF order = <<>> THEN [bufs |-> bufs, al |-> al]
    ELSE LET k == Head(order)
             r == RemoveStopped(bufs[k].sources, al, junk)
         IN CleanupFinishedSources([bufs EXCEPT ![k].sources = r.kept], r.al,
                                   Tail(order), junk)

\* the iteration orders of a map with the keys of bufs
Orders(bufs) ==
    LET n == Cardinality(DOMAIN bufs)
    IN {o \in [1..n -> DOMAIN bufs] : \A i, j \in 1..n : i # j => o[i] # o[j]}

\* the names found in the source lists
Listed(bufs) == {h \in Handles : \E k \in DOMAIN bufs, i \in 1..MaxInst :
                     i <= Len(bufs[k].sources) /\ bufs[k].sources[i] = h}

\* the listed names whose state query can find no source during a sweep:
\* those that are no source, and the stopped ones, which the sweep deletes
Doubtful(bufs, al) ==
    {h \in Listed(bufs) : ~IsSource(al, h) \/ al[h].state = "stopped"}

\* the playback instance a name stands for, 0 when it is not a source
InstOf(al, h) == IF IsSource(al, h) THEN al[h].inst ELSE 0

\* the music playback instance a name stands for, 0 when it stands for none
MusicInstOf(al, h) == IF IsSource(al, h) /\ al[h].music THEN al[h].inst ELSE 0

\* the music playback instances that exist
MusicInstances(al) == {al[h].inst : h \in {x \in Handles : IsSource(al, x) /\ al[x].music}}

(***************************************************************************)
(* OpenALAudio::PlayMusic.  h is the name alGenSources returns.            *)
(***************************************************************************)
PlayMusicBody(op, path, fileOk, fading, fadeMs, loops) ==
    LET g    == GenerateAudioKey(path)
        al1  == IF m_CurrentMusicSource # 0
                THEN alDeleteSources(alSourceStop(alSources, m_CurrentMusicSource),
                                     m_CurrentMusicSource)
                ELSE alSources
        have == g.key \in DOMAIN m_AudioBuffers
        load == LoadWAVFile(path, fileOk)
        b    == IF have THEN m_AudioBuffers[g.key].buffer ELSE alGenBuffers(alBuffers)
        call == [op |-> op, init |-> TRUE, hadBuffer |-> have,
                 decoders |-> IF have THEN <<>> ELSE <<load.decoder>>,
                 decoded |-> ~have /\ load.ok,
                 prevInst |-> MusicInstOf(alSources, m_CurrentMusicSource),
                 fade |-> IF fading THEN "in" ELSE "none",
                 ms |-> fadeMs, ticks |-> 0, callbacks |-> 0]
    IN
    /\ ApplyKey(g, path)
    /\ UNCHANGED <<deviceVars, m_MusicVolume, m_MusicFinishedCallback, volSteps>>
    /\ IF ~Loaded(have, load)
       THEN /\ m_CurrentMusicSource' = 0
            /\ alSources' = al1
            /\ lastCall' = [call EXCEPT !.fade = "none"] @@ [ret |-> FALSE]
            /\ UNCHANGED <<m_AudioBuffers, alBuffers, m_CurrentMusicPathKey, m_MusicPaused,
                           m_MusicFading, fadeVars, nextInst>>
       ELSE LET bufs1 == IF have THEN m_AudioBuffers
                         ELSE m_AudioBuffers @@
                                  (g.key :> [buffer |-> b, sources |-> <<>>, path |-> path])
                src   == [CreateSource(b, TRUE) EXCEPT
                              !.gain = IF fading THEN F32Zero ELSE m_MusicVolume,
                              !.state = "playing",
                              !.looping = (fading /\ loops = -1)]
            IN
            \E h \in FreeHandles(al1) :
            /\ nextInst <= MaxInst
            /\ nextInst' = nextInst + 1
            /\ alBuffers' = alBuffers \cup {b}
            /\ alSources' = [al1 EXCEPT ![h] = src]
            /\ m_AudioBuffers' = [bufs1 EXCEPT ![g.key].sources = Append(@, h)]
            /\ m_CurrentMusicSource' = h
            /\ m_CurrentMusicPathKey' = g.key
            /\ m_MusicPaused' = FALSE
            /\ m_MusicFading' = fading
            /\ IF fading
               THEN /\ m_FadeStartVolume' = F32Zero
                    /\ m_FadeTargetVolume' = m_MusicVolume
                    /\ m_FadeTimeRemaining' = F32Div(F32FromInt(fadeMs), F32Thousand)
                    /\ m_FadeDuration' = F32Div(F32FromInt(fadeMs), F32Thousand)
               ELSE UNCHANGED fadeVars
            /\ lastCall' = call @@ [ret |-> TRUE]

\* a PlayMusic without the check of m_Initialized
PlayMusicUnguarded(path, fileOk) == PlayMusicBody("PlayMusic", path, fileOk, FALSE, 0, 0)

PlayMusic(path, fileOk) ==
    IF ~m_Initialized
    THEN /\ lastCall' = [op |-> "PlayMusic", init |-> FALSE, hadBuffer |-> FALSE,
                         decoders |-> <<>>, decoded |-> FALSE, prevInst |-> 0, fade |-> "none", ms |-> 0,
                         ticks |-> 0, callbacks |-> 0, ret |-> FALSE]
         /\ UNCHANGED <<iaudioVars, deviceVars, m_AudioBuffers, musicVars, m_MusicVolume,
                        m_MusicFinishedCallback, fadeVars, alVars, nextInst, volSteps, returned>>
    ELSE PlayMusicBody("PlayMusic", path, fileOk, FALSE, 0, 0)

(***************************************************************************)
(* OpenALAudio::FadeInMusic: PlayMusic and, when it succeeds, the start of *)
(* a fade from silence to m_MusicVolume.                                   *)
(***************************************************************************)
FadeInMusic(path, loops, ms, fileOk) ==
    IF ~m_Initialized
    THEN /\ lastCall' = [op |-> "FadeInMusic", init |-> FALSE, hadBuffer |-> FALSE,
                         decoders |-> <<>>, decoded |-> FALSE, prevInst |-> 0, fade |-> "none", ms |-> ms,
                         ticks |-> 0, callbacks |-> 0, ret |-> FALSE]
         /\ UNCHANGED <<iaudioVars, deviceVars, m_AudioBuffers, musicVars, m_MusicVolume,
                        m_MusicFinishedCallback, fadeVars, alVars, nextInst, volSteps, returned>>
    ELSE PlayMusicBody("FadeInMusic", path, fileOk, TRUE, ms, loops)

(***************************************************************************)
(* OpenALAudio::PlaySoundEffect, the cleanup sweep at its end included.    *)
(***************************************************************************)
PlaySoundEffect(path, fileOk) ==
    IF ~m_Initialized
    THEN /\ lastCall' = [op |-> "PlaySoundEffect", init |-> FALSE, hadBuffer |-> FALSE,
                         decoders |-> <<>>, decoded |-> FALSE, ret |-> FALSE]
         /\ UNCHANGED <<iaudioVars, deviceVars, m_AudioBuffers, musicVars, m_MusicVolume,
                        m_MusicFinishedCallback, fadeVars, alVars, nextInst, volSteps, returned>>
    ELSE
    LET g    == GenerateAudioKey(path)
        have == g.key \in DOMAIN m_AudioBuffers
        load == LoadWAVFile(path, fileOk)
        b    == IF have THEN m_AudioBuffers[g.key].buffer ELSE alGenBuffers(alBuffers)
        call == [op |-> "PlaySoundEffect", init |-> TRUE, hadBuffer |-> have,
                 decoders |-> IF have THEN <<>> ELSE <<load.decoder>>,
                 decoded |-> ~have /\ load.ok]
    IN
    /\ ApplyKey(g, path)
    /\ UNCHANGED <<deviceVars, musicVars, m_MusicVolume, m_MusicFinishedCallback,
                   fadeVars, volSteps>>
    /\ IF ~Loaded(have, load)
       THEN /\ lastCall' = call @@ [ret |-> FALSE]
            /\ UNCHANGED <<m_AudioBuffers, alVars, nextInst>>
       ELSE \E h \in FreeHandles(alSources) :
            LET bufs1 == IF have THEN m_AudioBuffers
                         ELSE m_AudioBuffers @@
                                  (g.key :> [buffer |-> b, sources |-> <<>>, path |-> path])
                bufs2 == [bufs1 EXCEPT ![g.key].sources = Append(@, h)]
                al1   == [alSources EXCEPT ![h] =
                              [CreateSource(b, FALSE) EXCEPT !.state = "playing"]]
            IN
            \E order \in Orders(bufs2), junk \in SUBSET Doubtful(bufs2, al1) :
            LET swept == CleanupFinishedSources(bufs2, al1, order, junk) IN
            /\ nextInst <= MaxInst
            /\ nextInst' = nextInst + 1
            /\ alBuffers' = alBuffers \cup {b}
            /\ alSources' = swept.al
            /\ m_AudioBuffers' = swept.bufs
            /\ lastCall' = call @@ [ret |-> TRUE]

(***************************************************************************)
(* OpenALAudio::OperateCurrentMusic.                                       *)
(***************************************************************************)
\* a volume step up that does not saturate
VolumeUpUnclamped(v) == F32Add(v, F32Tenth)

\* std::min(m_MusicVolume + 0.1f, 1.0f)
VolumeUp(v) == F32Min(F32Add(v, F32Tenth), F32One)

\* std::max(m_MusicVolume - 0.1f, 0.0f)
VolumeDown(v) == F32Max(F32Sub(v, F32Tenth), F32Zero)

OperateCurrentMusic(action) ==
    LET cur == m_CurrentMusicSource
        up   == VolumeUp(m_MusicVolume)
        down == VolumeDown(m_MusicVolume)
    IN
    /\ lastCall' = [op |-> "OperateCurrentMusic"]
    /\ UNCHANGED <<iaudioVars, deviceVars, m_AudioBuffers, m_CurrentMusicPathKey,
                   m_CurrentMusicSource, m_MusicFading, m_MusicFinishedCallback, fadeVars,
                   alBuffers, nextInst, returned>>
    /\ IF cur = 0
       THEN UNCHANGED <<alSources, m_MusicPaused, m_MusicVolume, volSteps>>
       ELSE
       /\ m_MusicPaused' = IF action = "kPause" THEN TRUE
                           ELSE IF action = "kResume" THEN FALSE ELSE m_MusicPaused
       /\ m_MusicVolume' = IF action = "kVolumeUp" THEN up
                           ELSE IF action = "kVolumeDown" THEN down ELSE m_MusicVolume
       /\ IF action \in {"kVolumeUp", "kVolumeDown"}
          THEN volSteps < MaxVolSteps /\ volSteps' = volSteps + 1
          ELSE UNCHANGED volSteps
       /\ alSources' =
            CASE action = "kStop"       -> alSourceStop(alSources, cur)
              [] action = "kPause"      -> alSourcePause(alSources, cur)
              [] action = "kResume"     -> alSourcePlay(alSources, cur)
              [] action = "kReplay"     -> alSourcePlay(alSourceRewind(alSources, cur), cur)
              [] action = "kLoop"       -> alSourceLooping(alSources, cur, TRUE)
              [] action = "kStopLoop"   -> alSourceLooping(alSources, cur, FALSE)
              [] action = "kMute"       -> alSourceGain(alSources, cur, F32Zero)
              [] action = "kUnmute"     -> alSourceGain(alSources, cur, m_MusicVolume)
              [] action = "kVolumeUp"   -> alSourceGain(alSources, cur, up)
              [] action = "kVolumeDown" -> alSourceGain(alSources, cur, down)
              [] action = "kRewind"     -> alSourceRewind(alSources, cur)

(***************************************************************************)
(* OpenALAudio::OperateCurrentSounds: the cleanup sweep, then the action   *)
(* on every listed name other than m_CurrentMusicSource.                   *)
(***************************************************************************)
SoundAction(al, h, action) ==
    CASE action = "kStop"       -> alSourceStop(al, h)
      [] action = "kPause"      -> alSourcePause(al, h)
      [] action = "kResume"     -> alSourcePlay(al, h)
      [] action = "kReplay"     -> alSourcePlay(alSourceRewind(al, h), h)
      [] action = "kRewind"     -> alSourceRewind(al, h)
      [] action = "kMute"       -> alSourceGain(al, h, F32Zero)
      [] action = "kUnmute"     -> alSourceGain(al, h, F32One)
      [] action = "kLoop"       -> alSourceLooping(al, h, TRUE)
      [] action = "kStopLoop"   -> alSourceLooping(al, h, FALSE)
      [] action = "kVolumeUp"   ->
           IF IsSource(al, h)
           THEN alSourceGain(al, h, F32Min(F32Add(al[h].gain, F32Tenth), F32One)) ELSE al
      [] action = "kVolumeDown" ->
           IF IsSource(al, h)
           THEN alSourceGain(al, h, F32Max(F32Sub(al[h].gain, F32Tenth), F32Zero)) ELSE al

\* the source lists one after the other, in map order
RECURSIVE AllSources(_, _)
AllSources(bufs, order) ==
    IF order = <<>> THEN <<>>
    ELSE bufs[Head(order)].sources \o AllSources(bufs, Tail(order))

RECURSIVE OperateEach(_, _, _, _)
OperateEach(handles, al, action, skip) ==
    IF handles = <<>> THEN al
    ELSE OperateEach(Tail(handles),
                     IF Head(handles) # skip THEN SoundAction(al, Head(handles), action)
                                             ELSE al,
                     action, skip)

OperateCurrentSounds(action) ==
    /\ UNCHANGED <<iaudioVars, deviceVars, musicVars, m_MusicVolume, m_MusicFinishedCallback,
                   fadeVars, alBuffers, nextInst, returned>>
    /\ IF ~m_Initialized
       THEN /\ lastCall' = [op |-> "OperateCurrentSounds"]
            /\ UNCHANGED <<m_AudioBuffers, alSources, volSteps>>
       ELSE \E order \in Orders(m_AudioBuffers),
               junk \in SUBSET Doubtful(m_AudioBuffers, alSources) :
            LET swept == CleanupFinishedSources(m_AudioBuffers, alSources, order, junk)
                all   == AllSources(swept.bufs, order)
            IN
            /\ IF action \in {"kVolumeUp", "kVolumeDown"}
               THEN volSteps < MaxVolSteps /\ volSteps' = volSteps + 1
               ELSE UNCHANGED volSteps
            /\ m_AudioBuffers' = swept.bufs
            /\ alSources' = OperateEach(all, swept.al, action, m_CurrentMusicSource)
            /\ lastCall' = [op |-> "OperateCurrentSounds"]

(***************************************************************************)
(* OpenALAudio::FadeOutMusic.                                              *)
(***************************************************************************)
FadeOutMusic(ms) ==
    /\ lastCall' = [op |-> "FadeOutMusic", ms |-> ms, ticks |-> 0, callbacks |-> 0,
                    fade |-> IF m_CurrentMusicSource # 0 THEN "out" ELSE "none",
                    prevInst |-> MusicInstOf(alSources, m_CurrentMusicSource)]
    /\ UNCHANGED <<iaudioVars, deviceVars, m_AudioBuffers, m_CurrentMusicPathKey,
                   m_CurrentMusicSource, m_MusicPaused, m_MusicVolume,
                   m_MusicFinishedCallback, alVars, nextInst, volSteps, returned>>
    /\ IF m_CurrentMusicSource # 0
       THEN /\ m_FadeStartVolume' = m_MusicVolume
            /\ m_FadeTargetVolume' = F32Zero
            /\ m_FadeTimeRemaining' = F32Div(F32FromInt(ms), F32Thousand)
            /\ m_FadeDuration' = F32Div(F32FromInt(ms), F32Thousand)
            /\ m_MusicFading' = TRUE
       ELSE UNCHANGED <<fadeVars, m_MusicFading>>

(***************************************************************************)
(* OpenALAudio::UpdateFading, one tick of the fade update.  lastCall keeps *)
(* count of the ticks and callback invocations since the fade request they *)
(* follow without another operation in between, and the interpolation      *)
(* factor t of a tick that does not complete the fade.                     *)
(***************************************************************************)
UpdateFadingWithin(maxTicks) ==
    LET chained == lastCall.op \in {"FadeInMusic", "FadeOutMusic", "UpdateFading"}
        ticks   == IF chained THEN lastCall.ticks ELSE 0
        cur     == m_CurrentMusicSource
        rem     == F32Sub(m_FadeTimeRemaining, F32Tick)
        done    == rem[1] <= 0
        silent  == m_FadeTargetVolume = F32Zero
        t       == F32Sub(F32One, F32Div(rem, m_FadeDuration))
        currentVolume ==
            F32Add(m_FadeStartVolume,
                   F32Mul(F32Sub(m_FadeTargetVolume, m_FadeStartVolume), t))
        active  == m_MusicFading /\ cur # 0
        called  == active /\ done /\ silent /\ m_MusicFinishedCallback
    IN
    /\ ticks < maxTicks
    /\ lastCall' = [op |-> "UpdateFading",
                    fade |-> IF chained THEN lastCall.fade ELSE "none",
                    ms |-> IF chained THEN lastCall.ms ELSE 0,
                    prevInst |-> IF chained THEN lastCall.prevInst ELSE 0,
                    ticks |-> ticks + 1,
                    t |-> IF active /\ ~done THEN t ELSE F32Zero,
                    callbacks |-> (IF chained THEN lastCall.callbacks ELSE 0)
                                  + (IF called THEN 1 ELSE 0)]
    /\ UNCHANGED <<iaudioVars, deviceVars, m_AudioBuffers, m_CurrentMusicPathKey,
                   m_CurrentMusicSource, m_MusicPaused, m_MusicVolume,
                   m_MusicFinishedCallback, m_FadeStartVolume, m_FadeTargetVolume,
                   m_FadeDuration, alBuffers, nextInst, volSteps, returned>>
    /\ IF ~active
       THEN UNCHANGED <<m_FadeTimeRemaining, m_MusicFading, alSources>>
       ELSE /\ m_FadeTimeRemaining' = rem
            /\ m_MusicFading' = ~done
            /\ alSources' =
                 IF done
                 THEN LET al1 == alSourceGain(alSources, cur, m_FadeTargetVolume)
                      IN IF silent THEN alSourceStop(al1, cur) ELSE al1
                 ELSE alSourceGain(alSources, cur, currentVolume)

\* a host that calls the fade update at most MaxTicks times in a row
UpdateFading == UpdateFadingWithin(MaxTicks)

(***************************************************************************)
(* OpenALAudio::FreeMusicByKey and OpenALAudio::FreeSoundByKey.            *)
(***************************************************************************)
\* a loop that skips every name of the list
StopAndDeleteSkip(sources, al) == al

\* alSourceStop and alDeleteSources on every name of a list
RECURSIVE StopAndDelete(_, _)
StopAndDelete(sources, al) ==
    IF sources = <<>> THEN al
    ELSE StopAndDelete(Tail(sources),
                       alDeleteSources(alSourceStop(al, Head(sources)), Head(sources)))

\* alDeleteBuffers: a buffer still attached to a source is not deleted
alDeleteBuffers(bufs, al, b) ==
    IF \E h \in Handles : IsSource(al, h) /\ al[h].buffer = b THEN bufs ELSE bufs \ {b}

(***************************************************************************)
(* OpenALAudio::~OpenALAudio.  Every name of every list is handed to       *)
(* alDeleteSources, without a stop, then the buffer of the record is       *)
(* deleted; the map is walked in the order 'order'.  'invalid' counts the  *)
(* alDeleteSources calls on a name that is no source at the time.          *)
(***************************************************************************)
RECURSIVE DeleteEach(_, _)
DeleteEach(sources, al) ==
    IF sources = <<>> THEN [al |-> al, invalid |-> 0]
    ELSE LET h == Head(sources)
             r == DeleteEach(Tail(sources), alDeleteSources(al, h))
         IN [al |-> r.al, invalid |-> r.invalid + IF IsSource(al, h) THEN 0 ELSE 1]

RECURSIVE DeleteAll(_, _, _, _)
DeleteAll(bufs, order, al, albufs) ==
    IF order = <<>> THEN [al |-> al, albufs |-> albufs, invalid |-> 0]
    ELSE LET k == Head(order)
             d == DeleteEach(bufs[k].sources, al)
             r == DeleteAll(bufs, Tail(order), d.al,
                            alDeleteBuffers(albufs, d.al, bufs[k].buffer))
         IN [al |-> r.al, albufs |-> r.albufs, invalid |-> d.invalid + r.invalid]

Destructor ==
    \E order \in Orders(m_AudioBuffers) :
    LET r == DeleteAll(m_AudioBuffers, order, alSources, alBuffers) IN
    /\ alSources' = r.al
    /\ alBuffers' = r.albufs
    /\ m_Context' = IF m_Context = "null" THEN "null" ELSE "closed"
    /\ m_Device' = IF m_Device = "null" THEN "null" ELSE "closed"
    /\ lastCall' = [op |-> "~OpenALAudio", invalid |-> r.invalid]
    /\ UNCHANGED <<iaudioVars, m_Initialized, m_AudioBuffers, musicVars, m_MusicVolume,
                   m_MusicFinishedCallback, fadeVars, nextInst, volSteps, returned>>

FreeCall(op, audioKey) ==
    LET have == audioKey \in DOMAIN m_AudioBuffers IN
    [op |-> op, key |-> audioKey, hadBuffer |-> have,
     listed |-> IF have THEN Len(m_AudioBuffers[audioKey].sources) ELSE 0,
     wasCurrent |-> audioKey = m_CurrentMusicPathKey
                    /\ MusicInstOf(alSources, m_CurrentMusicSource) # 0]

FreeByKey(op, audioKey, resetMusic) ==
    /\ lastCall' = FreeCall(op, audioKey)
    /\ UNCHANGED <<m_NextAudioKey, m_LastKeyGeneration, deviceVars, m_MusicPaused,
                   m_MusicFading, m_MusicVolume, m_MusicFinishedCallback, fadeVars,
                   nextInst, volSteps, returned>>
    /\ IF audioKey \in DOMAIN m_AudioBuffers
       THEN LET al1 == StopAndDelete(m_AudioBuffers[audioKey].sources, alSources) IN
            /\ alSources' = al1
            /\ alBuffers' = alDeleteBuffers(alBuffers, al1, m_AudioBuffers[audioKey].buffer)
            /\ m_AudioBuffers' = Erase(m_AudioBuffers, audioKey)
            /\ m_AudioKeyToPath' = Erase(m_AudioKeyToPath, audioKey)
            /\ IF resetMusic /\ audioKey = m_CurrentMusicPathKey
               THEN m_CurrentMusicPathKey' = 0 /\ m_CurrentMusicSource' = 0
               ELSE UNCHANGED <<m_CurrentMusicPathKey, m_CurrentMusicSource>>
       ELSE UNCHANGED <<alVars, m_AudioBuffers, m_AudioKeyToPath, m_CurrentMusicPathKey,
                        m_CurrentMusicSource>>

FreeMusicByKey(audioKey) == FreeByKey("FreeMusicByKey", audioKey, TRUE)

FreeSoundByKey(audioKey) == FreeByKey("FreeSoundByKey", audioKey, FALSE)

(***************************************************************************)
(* Volume accessors.                                                       *)
(***************************************************************************)
\* the conversion without the clamp
NormalizedVolumeUnclamped(volume) == F32Div(F32FromInt(volume), F32Hundred)

\* std::max(0.0f, std::min(static_cast<float>(volume) / 100.0f, 1.0f))
NormalizedVolume(volume) ==
    F32Max(F32Zero, F32Min(F32Div(F32FromInt(volume), F32Hundred), F32One))

\* static_cast<int>(volume * 100.0f)
VolumeToInt(volume) == F32ToInt(F32Mul(volume, F32Hundred))

SetMusicVolume(volume) ==
    /\ m_MusicVolume' = NormalizedVolume(volume)
    /\ alSources' = IF m_CurrentMusicSource # 0
                    THEN alSourceGain(alSources, m_CurrentMusicSource, NormalizedVolume(volume))
                    ELSE alSources
    /\ lastCall' = [op |-> "SetMusicVolume", v |-> volume]
    /\ UNCHANGED <<iaudioVars, deviceVars, m_AudioBuffers, musicVars,
                   m_MusicFinishedCallback, fadeVars, alBuffers, nextInst, volSteps, returned>>

RECURSIVE GainEach(_, _, _)
GainEach(sources, al, g) ==
    IF sources = <<>> THEN al
    ELSE GainEach(Tail(sources), alSourceGain(al, Head(sources), g), g)

SetSoundVolume(path, volume) ==
    LET g == GenerateAudioKey(path) IN
    /\ ApplyKey(g, path)
    /\ alSources' = IF g.key \in DOMAIN m_AudioBuffers
                    THEN GainEach(m_AudioBuffers[g.key].sources, alSources,
                                  NormalizedVolume(volume))
                    ELSE alSources
    /\ lastCall' = [op |-> "SetSoundVolume", v |-> volume,
                    hadBuffer |-> g.key \in DOMAIN m_AudioBuffers]
    /\ UNCHANGED <<deviceVars, m_AudioBuffers, musicVars, m_MusicVolume,
                   m_MusicFinishedCallback, fadeVars, alBuffers, nextInst, volSteps>>

\* the values GetMusicVolume() may return in the current state: reading the
\* gain of a name that is not a source leaves 'volume' uninitialised
GetMusicVolumeResults ==
    IF m_CurrentMusicSource # 0
    THEN IF IsSource(alSources, m_CurrentMusicSource)
         THEN {VolumeToInt(alSources[m_CurrentMusicSource].gain)}
         ELSE GarbageVolumes
    ELSE {VolumeToInt(m_MusicVolume)}

GetMusicVolume ==
    /\ lastCall.op # "GetMusicVolume"
    /\ \E r \in GetMusicVolumeResults :
         lastCall' = [op |-> "GetMusicVolume", ret |-> r,
                      afterSet |-> lastCall.op = "SetMusicVolume",
                      v |-> IF lastCall.op = "SetMusicVolume" THEN lastCall.v ELSE 0,
                      music |-> IF m_CurrentMusicSource = 0 THEN "none"
                                ELSE IF IsSource(alSources, m_CurrentMusicSource)
                                THEN "current" ELSE "dangling"]
    /\ UNCHANGED <<iaudioVars, deviceVars, m_AudioBuffers, musicVars, m_MusicVolume,
                   m_MusicFinishedCallback, fadeVars, alVars, nextInst, volSteps, returned>>

GetSoundVolume(path) ==
    LET g == GenerateAudioKey(path)
        have == g.key \in DOMAIN m_AudioBuffers
        results == IF have /\ m_AudioBuffers[g.key].sources # <<>>
                   THEN IF IsSource(alSources, m_AudioBuffers[g.key].sources[1])
                        THEN {VolumeToInt(alSources[m_AudioBuffers[g.key].sources[1]].gain)}
                        ELSE GarbageVolumes
                   ELSE {0}
    IN
    /\ ApplyKey(g, path)
    /\ \E r \in results :
         lastCall' = [op |-> "GetSoundVolume", hadBuffer |-> have, ret |-> r]
    /\ UNCHANGED <<deviceVars, m_AudioBuffers, musicVars, m_MusicVolume,
                   m_MusicFinishedCallback, fadeVars, alVars, nextInst, volSteps>>

\* OpenALAudio::GetMaxVolume
GetMaxVolume == 100

(***************************************************************************)
(* OpenALAudio::SetFinishMusicCallback.                                    *)
(***************************************************************************)
SetFinishMusicCallback(music_finished) ==
    /\ m_MusicFinishedCallback' = music_finished
    /\ lastCall' = [op |-> "SetFinishMusicCallback"]
    /\ UNCHANGED <<iaudioVars, deviceVars, m_AudioBuffers, musicVars, m_MusicVolume,
                   fadeVars, alVars, nextInst, volSteps, returned>>

(***************************************************************************)
(* Status queries.  Asking a name that is not a source for its state       *)
(* leaves 'state' uninitialised, so either answer is possible.             *)
(***************************************************************************)
IsMusicPlayingResults ==
    IF m_CurrentMusicSource = 0 THEN {FALSE}
    ELSE IF IsSource(alSources, m_CurrentMusicSource)
    THEN {alSources[m_CurrentMusicSource].state = "playing"}
    ELSE BOOLEAN

IsMusicPausedResults ==
    IF m_CurrentMusicSource = 0 THEN {FALSE}
    ELSE IF IsSource(alSources, m_CurrentMusicSource)
    THEN {alSources[m_CurrentMusicSource].state = "paused"}
    ELSE BOOLEAN

IsMusicFading == m_MusicFading

(***************************************************************************)
(* The OpenAL mixer: a playing source that does not loop reaches the end   *)
(* of its buffer and becomes stopped.                                      *)
(***************************************************************************)
SourceFinished(h) ==
    /\ IsSource(alSources, h)
    /\ alSources[h].state = "playing"
    /\ ~alSources[h].looping
    /\ alSources' = [alSources EXCEPT ![h].state = "stopped"]
    /\ lastCall' = [op |-> "SourceFinished"]
    /\ UNCHANGED <<iaudioVars, deviceVars, m_AudioBuffers, musicVars, m_MusicVolume,
                   m_MusicFinishedCallback, fadeVars, alBuffers, nextInst, volSteps, returned>>

(***************************************************************************)
(* The specification: any sequence of at most MaxCalls calls from the      *)
(* host, which calls Init until it succeeds and calls nothing on an object *)
(* it has destroyed.                                                       *)
(***************************************************************************)
\* the object has not been destroyed
Alive == lastCall.op # "~OpenALAudio"

\* a call of a run that counts its calls
Counted == Alive /\ calls < MaxCalls /\ calls' = calls + 1

Next ==
    \/ Counted /\ \E outcome \in {"device", "context", "current", "ok"} :
         ~m_Initialized /\ InitAudio(outcome)
    \/ Counted /\ \E path \in Paths, fileOk \in BOOLEAN : PlayMusic(path, fileOk)
    \/ Counted /\ \E path \in Paths, fileOk \in BOOLEAN : PlaySoundEffect(path, fileOk)
    \/ Counted /\ \E action \in EAudioAction : OperateCurrentMusic(action)
    \/ Counted /\ \E action \in EAudioAction : OperateCurrentSounds(action)
    \/ Counted /\ \E path \in Paths, loops \in {-1, 0}, ms \in FadeInputs, fileOk \in BOOLEAN :
         FadeInMusic(path, loops, ms, fileOk)
    \/ Counted /\ \E ms \in FadeInputs : FadeOutMusic(ms)
    \/ Counted /\ UpdateFading
    \/ Counted /\ \E audioKey \in Keys : FreeMusicByKey(audioKey)
    \/ Counted /\ \E audioKey \in Keys : FreeSoundByKey(audioKey)
    \/ Counted /\ \E volume \in VolumeInputs : SetMusicVolume(volume)
    \/ Counted /\ \E path \in Paths, volume \in VolumeInputs : SetSoundVolume(path, volume)
    \/ Counted /\ GetMusicVolume
    \/ Counted /\ \E path \in Paths : GetSoundVolume(path)
    \/ Counted /\ \E cb \in BOOLEAN : SetFinishMusicCallback(cb)
    \/ Counted /\ \E h \in Handles : SourceFinished(h)
    \/ Counted /\ \E path \in Paths : CallGetMusicType(path)
    \/ Counted /\ Destructor

Spec == Init /\ [][Next]_vars

(***************************************************************************)
(* The operations that look up, create and free keys and buffer records,   *)
(* in any number and order.                                                *)
(***************************************************************************)
NextKeys ==
    \/ UNCHANGED calls /\ \E outcome \in {"device", "ok"} :
         ~m_Initialized /\ InitAudio(outcome)
    \/ UNCHANGED calls /\ \E path \in Paths : PlaySoundEffect(path, TRUE)
    \/ UNCHANGED calls /\ \E audioKey \in Keys : FreeMusicByKey(audioKey)
    \/ UNCHANGED calls /\ \E audioKey \in Keys : FreeSoundByKey(audioKey)
    \/ UNCHANGED calls /\ \E path \in Paths : GetSoundVolume(path)

SpecKeys == Init /\ [][NextKeys]_vars

\* the paths of two files that decode
MusicPaths == {PathWav, PathMp3}

(***************************************************************************)
(* The operations that free buffer records, with the ones that fill them   *)
(* with music and sound instances, in any number and order.                *)
(***************************************************************************)
NextFree ==
    \/ UNCHANGED calls /\ ~m_Initialized /\ InitAudio("ok")
    \/ UNCHANGED calls /\ \E path \in MusicPaths : PlayMusic(path, TRUE)
    \/ UNCHANGED calls /\ PlaySoundEffect(PathWav, TRUE)
    \/ UNCHANGED calls /\ \E audioKey \in Keys : FreeMusicByKey(audioKey)
    \/ UNCHANGED calls /\ \E audioKey \in Keys : FreeSoundByKey(audioKey)
    \/ UNCHANGED calls /\ \E path \in MusicPaths : GetSoundVolume(path)
    \/ UNCHANGED calls /\ \E h \in Handles : SourceFinished(h)

SpecFree == Init /\ [][NextFree]_vars

(***************************************************************************)
(* The operations that create, stop and delete playback instances, in any  *)
(* number and order.                                                       *)
(***************************************************************************)
\* the actions that change a source's play state
PlayStateActions == {"kStop", "kPause", "kResume"}

NextMusic ==
    \/ UNCHANGED calls /\ ~m_Initialized /\ InitAudio("ok")
    \/ UNCHANGED calls /\ \E path \in MusicPaths, fileOk \in BOOLEAN : PlayMusic(path, fileOk)
    \/ UNCHANGED calls /\ PlaySoundEffect(PathWav, TRUE)
    \/ UNCHANGED calls /\ \E action \in PlayStateActions : OperateCurrentMusic(action)
    \/ UNCHANGED calls /\ \E audioKey \in Keys : FreeMusicByKey(audioKey)
    \/ UNCHANGED calls /\ \E audioKey \in Keys : FreeSoundByKey(audioKey)
    \/ UNCHANGED calls /\ \E h \in Handles : SourceFinished(h)

SpecMusic == Init /\ [][NextMusic]_vars

(***************************************************************************)
(* The fades of the current music: the host requests a fade and calls the  *)
(* fade update once per frame.                                             *)
(***************************************************************************)
\* millisecond arguments of FadeOutMusic
FadeOutInputs == {-5, 16, 40}

\* actions on the music tried between fades
FadeMusicActions == {"kPause", "kRewind"}

NextFade ==
    \/ UNCHANGED calls /\ ~m_Initialized /\ InitAudio("ok")
    \/ UNCHANGED calls /\ PlayMusic(PathWav, TRUE)
    \/ UNCHANGED calls /\ SetFinishMusicCallback(TRUE)
    \/ UNCHANGED calls /\ SetMusicVolume(53)
    \/ UNCHANGED calls /\ \E action \in FadeMusicActions : OperateCurrentMusic(action)
    \/ UNCHANGED calls /\ \E loops \in {-1, 0} : FadeInMusic(PathWav, loops, 40, TRUE)
    \/ UNCHANGED calls /\ \E ms \in FadeOutInputs : FadeOutMusic(ms)
    \/ UNCHANGED calls /\ UpdateFading
    \/ UNCHANGED calls /\ \E h \in Handles : SourceFinished(h)

SpecFade == Init /\ [][NextFade]_vars

(***************************************************************************)
(* The music volume: the host sets it and reads it back, with and without  *)
(* a current music instance.                                               *)
(***************************************************************************)
\* how far outside 0..100 the arguments of SetMusicVolume go
MaxOver == 5

NextVolume ==
    \/ UNCHANGED calls /\ ~m_Initialized /\ InitAudio("ok")
    \/ UNCHANGED calls /\ PlayMusic(PathWav, TRUE)
    \/ UNCHANGED calls /\ FreeMusicByKey(m_CurrentMusicPathKey)
    \/ UNCHANGED calls /\ \E volume \in (0 - MaxOver)..(GetMaxVolume + MaxOver) :
         SetMusicVolume(volume)
    \/ UNCHANGED calls /\ GetMusicVolume

SpecVolume == Init /\ [][NextVolume]_vars

(***************************************************************************)
(* The calls a host may make before and after Init succeeds: Init with     *)
(* every outcome, the three play operations, and the two operations that   *)
(* change members without asking for m_Initialized.                        *)
(***************************************************************************)
NextInit ==
    \/ UNCHANGED calls /\ \E outcome \in {"device", "context", "current", "ok"} :
         ~m_Initialized /\ InitAudio(outcome)
    \/ UNCHANGED calls /\ \E fileOk \in BOOLEAN : PlayMusic(PathWav, fileOk)
    \/ UNCHANGED calls /\ PlaySoundEffect(PathMp3, TRUE)
    \/ UNCHANGED calls /\ FadeInMusic(PathWav, -1, 40, TRUE)
    \/ UNCHANGED calls /\ \E path \in Paths : GetSoundVolume(path)
    \/ UNCHANGED calls /\ SetMusicVolume(53)

SpecInit == Init /\ [][NextInit]_vars

(***************************************************************************)
(* The plays of files that decode and of files that do not, with the free  *)
(* that lets a path be loaded again.                                       *)
(***************************************************************************)
NextLoad ==
    \/ UNCHANGED calls /\ ~m_Initialized /\ InitAudio("ok")
    \/ UNCHANGED calls /\ \E path \in MusicPaths, fileOk \in BOOLEAN : PlayMusic(path, fileOk)
    \/ UNCHANGED calls /\ \E path \in MusicPaths, fileOk \in BOOLEAN :
         PlaySoundEffect(path, fileOk)
    \/ UNCHANGED calls /\ \E audioKey \in Keys : FreeSoundByKey(audioKey)

SpecLoad == Init /\ [][NextLoad]_vars

(***************************************************************************)
(* Format detection: the host asks for the format of a path, before and    *)
(* after Init and with and without a current music.                        *)
(***************************************************************************)
NextType ==
    \/ UNCHANGED calls /\ ~m_Initialized /\ InitAudio("ok")
    \/ UNCHANGED calls /\ PlayMusic(PathWav, TRUE)
    \/ UNCHANGED calls /\ \E path \in TypePaths : CallGetMusicType(path)

SpecType == Init /\ [][NextType]_vars

(***************************************************************************)
(* What a host can do about a fade through the public IAudio operations:   *)
(* every public operation but the frees, with no PlayMusic and no          *)
(* FadeInMusic while a fade is under way.  UpdateFading is private and no  *)
(* public operation calls it, so it is no step of this host.  The host     *)
(* goes on calling for ever.                                               *)
(***************************************************************************)
\* actions on the music a host issues while a fade is under way
PublicMusicActions == {"kStop", "kPause", "kResume", "kReplay", "kRewind"}

NextPublic ==
    \/ UNCHANGED calls /\ ~m_Initialized /\ InitAudio("ok")
    \/ UNCHANGED calls /\ ~m_MusicFading /\ PlayMusic(PathWav, TRUE)
    \/ UNCHANGED calls /\ ~m_MusicFading /\ FadeInMusic(PathWav, -1, 40, TRUE)
    \/ UNCHANGED calls /\ \E ms \in FadeOutInputs : FadeOutMusic(ms)
    \/ UNCHANGED calls /\ \E action \in PublicMusicActions : OperateCurrentMusic(action)
    \/ UNCHANGED calls /\ OperateCurrentSounds("kStop")
    \/ UNCHANGED calls /\ PlaySoundEffect(PathWav, TRUE)
    \/ UNCHANGED calls /\ SetSoundVolume(PathWav, 53)
    \/ UNCHANGED calls /\ GetSoundVolume(PathWav)
    \/ UNCHANGED calls /\ CallGetMusicType(PathWav)
    \/ UNCHANGED calls /\ SetMusicVolume(53)
    \/ UNCHANGED calls /\ GetMusicVolume
    \/ UNCHANGED calls /\ SetFinishMusicCallback(TRUE)
    \/ UNCHANGED calls /\ \E h \in Handles : SourceFinished(h)

SpecPublic == Init /\ [][NextPublic]_vars /\ WF_vars(NextPublic)

(***************************************************************************)
(* The play state of the current music: a host that plays a piece and      *)
(* pauses, resumes, stops and replays it while the mixer runs and sound    *)
(* effects are swept.                                                      *)
(***************************************************************************)
\* the actions of the current-music state machine
StateMachineActions == {"kStop", "kPause", "kResume", "kReplay"}

NextOperate ==
    \/ UNCHANGED calls /\ ~m_Initialized /\ InitAudio("ok")
    \/ UNCHANGED calls /\ \E path \in MusicPaths : PlayMusic(path, TRUE)
    \/ UNCHANGED calls /\ \E action \in StateMachineActions : OperateCurrentMusic(action)
    \/ UNCHANGED calls /\ OperateCurrentSounds("kStop")
    \/ UNCHANGED calls /\ \E h \in Handles : SourceFinished(h)

SpecOperate == Init /\ [][NextOperate]_vars

(***************************************************************************)
(* The music volume under the operations that set it, step it, mute it and *)
(* fade it, with and without a current music instance.                     *)
(***************************************************************************)
\* arguments of SetMusicVolume: below 0, one step from 100 and above 100
GainInputs == {-10, 95, 150}

\* the actions on the gain of the music
GainActions == {"kVolumeUp", "kVolumeDown", "kMute", "kUnmute"}

NextGain ==
    \/ UNCHANGED calls /\ ~m_Initialized /\ InitAudio("ok")
    \/ UNCHANGED calls /\ \E volume \in GainInputs : SetMusicVolume(volume)
    \/ UNCHANGED calls /\ \E action \in GainActions : OperateCurrentMusic(action)
    \/ UNCHANGED calls /\ FadeInMusic(PathWav, 0, 40, TRUE)
    \/ UNCHANGED calls /\ FadeOutMusic(40)
    \/ UNCHANGED calls /\ UpdateFading

SpecGain == Init /\ [][NextGain]_vars

(***************************************************************************)
(* A fade ticked to its end: the host requests a fade-in or a fade-out of  *)
(* some duration and then calls the fade update, frame after frame.        *)
(***************************************************************************)
\* fade durations in milliseconds: none, under one tick, whole ticks, more
\* than half a second, and longer than six days
TickInputs == {-5, 0, 16, 17, 40, 544, 600000000}

\* the durations tried for a fade-in
FadeInTickInputs == {40, 544}

NextTicks ==
    \/ UNCHANGED calls /\ ~m_Initialized /\ InitAudio("ok")
    \/ UNCHANGED calls /\ m_CurrentMusicSource = 0 /\ PlayMusic(PathWav, TRUE)
    \/ UNCHANGED calls /\ \E ms \in FadeInTickInputs : FadeInMusic(PathWav, 0, ms, TRUE)
    \/ UNCHANGED calls /\ \E ms \in TickInputs : FadeOutMusic(ms)
    \/ UNCHANGED calls /\ m_MusicVolume = F32One /\ SetMusicVolume(53)
    \/ UNCHANGED calls /\ UpdateFadingWithin(MaxFadeTicks)

SpecTicks == Init /\ [][NextTicks]_vars

(***************************************************************************)
(* The gain of the sound effects: the host plays music and effects, frees  *)
(* records, sets the volume of the effects of a path and mutes and unmutes *)
(* the effects.                                                            *)
(***************************************************************************)
\* the mute actions on the sound effects
MuteActions == {"kMute", "kUnmute"}

NextSounds ==
    \/ UNCHANGED calls /\ ~m_Initialized /\ InitAudio("ok")
    \/ UNCHANGED calls /\ PlayMusic(PathWav, TRUE)
    \/ UNCHANGED calls /\ \E path \in MusicPaths : PlaySoundEffect(path, TRUE)
    \/ UNCHANGED calls /\ \E audioKey \in Keys : FreeSoundByKey(audioKey)
    \/ UNCHANGED calls /\ \E path \in MusicPaths : SetSoundVolume(path, 53)
    \/ UNCHANGED calls /\ \E action \in MuteActions : OperateCurrentSounds(action)
    \/ UNCHANGED calls /\ \E h \in Handles : SourceFinished(h)

SpecSounds == Init /\ [][NextSounds]_vars

(***************************************************************************)
(* A fade-in ticked to its end, at the stored music volumes the host can   *)
(* set, with the finished-music callback set or not.                       *)
(***************************************************************************)
NextFadeIn ==
    \/ UNCHANGED calls /\ ~m_Initialized /\ InitAudio("ok")
    \/ UNCHANGED calls /\ \E volume \in VolumeInputs : SetMusicVolume(volume)
    \/ UNCHANGED calls /\ SetFinishMusicCallback(TRUE)
    \/ UNCHANGED calls /\ \E loops \in {-1, 0}, ms \in FadeInputs :
         FadeInMusic(PathWav, loops, ms, TRUE)
    \/ UNCHANGED calls /\ UpdateFading

SpecFadeIn == Init /\ [][NextFadeIn]_vars

(***************************************************************************)
(* Properties.                                                             *)
(***************************************************************************)
\* the playback instances that exist
Instances(al) == {al[h].inst : h \in {x \in Handles : IsSource(al, x)}}

\* C1: in every reachable state the current-music handle m_CurrentMusicSource
\* is 0 or names a playback instance that was created and not yet deleted.
C1_CurrentMusicHandleValid ==
    m_CurrentMusicSource = 0 \/ IsSource(alSources, m_CurrentMusicSource)

\* C2: every call of GenerateAudioKey for one path returns the same key during
\* the lifetime of the object: no path has been given two different keys.
C2_KeyStable ==
    \A p \in Paths : Cardinality(returned[p]) <= 1

\* C3: after a successful PlayMusic issued while a music instance was active,
\* exactly one music instance exists, it is the current one and the one this
\* call created, and the previous instance no longer exists.
C3_PlayMusicReplaces ==
    (lastCall.op = "PlayMusic" /\ lastCall.ret /\ lastCall.prevInst # 0) =>
        /\ IsSource(alSources, m_CurrentMusicSource)
        /\ MusicInstances(alSources) = {alSources[m_CurrentMusicSource].inst}
        /\ alSources[m_CurrentMusicSource].inst = nextInst - 1
        /\ alSources[m_CurrentMusicSource].state = "playing"
        /\ lastCall.prevInst \notin Instances(alSources)

\* C3 witness: PlayMusic has just succeeded while a music instance was active.
C3_Witness ==
    /\ lastCall.op = "PlayMusic" /\ lastCall.ret /\ lastCall.prevInst # 0
    /\ m_CurrentMusicSource # 0

\* C4: freeing the key of the current music with FreeMusicByKey or
\* FreeSoundByKey leaves the current-music key and handle 0 and
\* IsMusicPlaying() and IsMusicPaused() false.
C4_FreeResetsCurrentMusic ==
    (lastCall.op \in {"FreeMusicByKey", "FreeSoundByKey"} /\ lastCall.wasCurrent) =>
        /\ m_CurrentMusicPathKey = 0
        /\ m_CurrentMusicSource = 0
        /\ IsMusicPlayingResults = {FALSE}
        /\ IsMusicPausedResults = {FALSE}

\* the fade-out on a music instance whose update has been advanced past its
\* duration, with no other operation since the request
FadeOutAdvancedPast ==
    /\ lastCall.op = "UpdateFading"
    /\ lastCall.fade = "out"
    /\ lastCall.prevInst # 0
    /\ lastCall.ticks * 16 > lastCall.ms

Clamped(v) == IF v < 0 THEN 0 ELSE IF v > GetMaxVolume THEN GetMaxVolume ELSE v

\* GetMusicVolume() right after SetMusicVolume(v), with a current music
\* instance or with none
ReadBack ==
    /\ lastCall.op = "GetMusicVolume"
    /\ lastCall.afterSet
    /\ lastCall.music \in {"current", "none"}

\* C6 as stated: SetMusicVolume(v) then GetMusicVolume() returns v clamped
\* to [0, 100], for every v.
C6_VolumeRoundTripExact ==
    ReadBack => lastCall.ret = Clamped(lastCall.v)

\* C6 as amended: SetMusicVolume(v) then GetMusicVolume() returns v or v - 1
\* for 0 <= v <= 100, 0 for v <= 0 and 100 for v >= 100.
C6_VolumeRoundTripWithinOne ==
    ReadBack =>
        /\ lastCall.ret <= Clamped(lastCall.v)
        /\ lastCall.ret >= Clamped(lastCall.v) - 1
        /\ lastCall.v <= 0 => lastCall.ret = 0
        /\ lastCall.v >= GetMaxVolume => lastCall.ret = GetMaxVolume

\* C6 witness: SetMusicVolume(53) on a current music instance read back as 52.
C6_Witness ==
    /\ ReadBack
    /\ lastCall.music = "current"
    /\ lastCall.v = 53
    /\ lastCall.ret = 52

\* C7: GenerateAudioKey never returns 0, for any path, the empty one and the
\* first lookup on a fresh object included.
C7_KeyNeverZero ==
    \A p \in Paths : 0 \notin returned[p]

\* C8: no key has been returned by GenerateAudioKey for two different paths.
C8_DistinctPathsDistinctKeys ==
    \A p, q \in Paths : p # q => returned[p] \cap returned[q] = {}

\* C8 witness: a lookup has just been served from the last-lookup cache with
\* a key that was freed, and another path holds a key of its own.
C8_Witness ==
    /\ lastCall.op = "GetSoundVolume"
    /\ m_LastKeyGeneration.key # 0
    /\ m_LastKeyGeneration.key \notin DOMAIN m_AudioKeyToPath
    /\ \E q \in Paths : q # m_LastKeyGeneration.path /\ returned[q] \ {0} # {}

\* C9: FreeMusicByKey(k) and FreeSoundByKey(k) leave no buffer record for k
\* and none of the names listed in it a source; GetSoundVolume returns 0 when
\* the key of its path has no buffer record.
C9_FreeRemovesRecord ==
    [][/\ lastCall'.op \in {"FreeMusicByKey", "FreeSoundByKey"} =>
            /\ lastCall'.key \notin DOMAIN m_AudioBuffers'
            /\ lastCall'.key \in DOMAIN m_AudioBuffers =>
                 \A i \in 1..Len(m_AudioBuffers[lastCall'.key].sources) :
                     ~IsSource(alSources', m_AudioBuffers[lastCall'.key].sources[i])
       /\ (lastCall'.op = "GetSoundVolume" /\ ~lastCall'.hadBuffer) => lastCall'.ret = 0
      ]_vars

\* C9 witness: a free-by-key has just removed a record that listed instances,
\* and the key had been handed out for a path.
C9_Witness ==
    /\ lastCall.op \in {"FreeMusicByKey", "FreeSoundByKey"}
    /\ lastCall.hadBuffer
    /\ lastCall.listed > 0
    /\ lastCall.key \notin DOMAIN m_AudioBuffers

\* the decoder sequence the format of a path selects
ExpectedDecoders(path) ==
    CASE GetMusicType(path) = "kWav"  -> <<"wav">>
      [] GetMusicType(path) = "kMp3"  -> <<"mp3">>
      [] GetMusicType(path) = "kFlac" -> <<"flac">>
      [] OTHER -> <<>>

\* C10: PlayMusic and PlaySoundEffect load a file that is not loaded with the
\* decoder of the format its extension gives, and reject any other format
\* by returning false, with no decoder run and no buffer record created.
C10_DecoderByFormat ==
    (lastCall.op \in {"PlayMusic", "PlaySoundEffect"} /\ lastCall.init /\ ~lastCall.hadBuffer) =>
        /\ lastCall.decoders = ExpectedDecoders(m_LastKeyGeneration.path)
        /\ ExpectedDecoders(m_LastKeyGeneration.path) = <<>> =>
             (~lastCall.ret /\ m_LastKeyGeneration.key \notin DOMAIN m_AudioBuffers)

\* the members of the backend object and the OpenAL objects it owns
backendVars == <<iaudioVars, deviceVars, m_AudioBuffers, musicVars, m_MusicVolume,
                 m_MusicFinishedCallback, fadeVars, alVars>>

\* C11: while m_Initialized is false, PlayMusic, PlaySoundEffect and
\* FadeInMusic return false and leave every member and every OpenAL object as
\* it was: no key, no buffer record, no playback instance, no fade.
C11_NoPlayBeforeInit ==
    [][(~m_Initialized /\ lastCall'.op \in {"PlayMusic", "PlaySoundEffect", "FadeInMusic"}) =>
           /\ ~lastCall'.ret
           /\ UNCHANGED backendVars
           /\ nextInst' = nextInst
      ]_vars

\* C11 witness: FadeInMusic has just been refused after a failed Init, with
\* keys already handed out by volume queries.
C11_Witness ==
    /\ lastCall.op = "FadeInMusic"
    /\ ~lastCall.init
    /\ ~lastCall.ret
    /\ m_Device = "closed"
    /\ m_NextAudioKey > 1
    /\ ~m_MusicFading

\* C12: when the decoder fails inside PlayMusic or PlaySoundEffect, the call
\* returns false, the key of the path has no buffer record afterwards, no
\* playback instance has been created and every buffer record is as it was.
C12_DecodeFailureLeavesNoRecord ==
    [][(/\ lastCall'.op \in {"PlayMusic", "PlaySoundEffect"}
        /\ lastCall'.init
        /\ ~lastCall'.hadBuffer
        /\ ~lastCall'.decoded) =>
           /\ ~lastCall'.ret
           /\ m_LastKeyGeneration'.key \notin DOMAIN m_AudioBuffers'
           /\ nextInst' = nextInst
           /\ Instances(alSources') \subseteq Instances(alSources)
           /\ alBuffers' = alBuffers
           /\ m_AudioBuffers' = m_AudioBuffers
      ]_vars

\* C12 witness: a play of a file that does not decode has just failed while
\* another path has a buffer record with an instance in it.
C12_Witness ==
    /\ lastCall.op \in {"PlayMusic", "PlaySoundEffect"}
    /\ lastCall.init /\ ~lastCall.hadBuffer /\ ~lastCall.decoded
    /\ lastCall.decoders = <<"wav">>
    /\ ~lastCall.ret
    /\ \E k \in DOMAIN m_AudioBuffers : m_AudioBuffers[k].sources # <<>>

\* the format each extension stands for, the extension in lower case
TypeOfExtension(ext) ==
    CASE ext = <<"w", "a", "v">> -> "kWav"
      [] ext = <<"o", "g", "g">> -> "kOgg"
      [] ext = <<"m", "p", "3">> -> "kMp3"
      [] ext = <<"f", "l", "a", "c">> -> "kFlac"
      [] ext \in {<<"m", "i", "d">>, <<"m", "i", "d", "i">>} -> "kMidi"
      [] ext = <<"m", "o", "d">> -> "kMod"
      [] ext = <<"a", "i", "f", "f">> -> "kAiff"
      [] ext = <<"r", "a", "w">> -> "kRaw"
      [] OTHER -> "kOthers"

\* the formats the extension of each path stands for: one format per path
ExpectedTypes ==
    [path \in TypePaths |->
        IF path \in DotlessPaths THEN {"kOthers"}
        ELSE {TypeOfExtension(input.ext) :
                 input \in {i \in TypeInputs : PathOf(i) = path}}]

\* C13: GetMusicType of stem.ext is the format of ext, whatever the stem and
\* the letter case of ext are, kOthers for an unknown extension and for a
\* path with no '.', and the call changes no member and no OpenAL object.
C13_TypeByExtension ==
    [][lastCall'.op = "GetMusicType" =>
           /\ lastCall'.path \in TypePaths
           /\ ExpectedTypes[lastCall'.path] = {lastCall'.ret}
           /\ UNCHANGED backendVars
      ]_vars

\* C13 witness: "song.WAV" has just been found to be kWav while a music
\* instance is current.
C13_Witness ==
    /\ lastCall.op = "GetMusicType"
    /\ lastCall.path = <<"s", "o", "n", "g", ".", "W", "A", "V">>
    /\ lastCall.ret = "kWav"
    /\ m_CurrentMusicSource # 0

\* C14: in every reachable state every name listed in a buffer record is a
\* playback instance that has been created and not yet deleted.
C14_ListedHandlesLive ==
    \A k \in DOMAIN m_AudioBuffers :
        \A i \in 1..Len(m_AudioBuffers[k].sources) :
            IsSource(alSources, m_AudioBuffers[k].sources[i])

\* the keys of the buffer records that hold the decoded file of a path
RecordsOf(bufs, path) == {k \in DOMAIN bufs : bufs[k].path = path}

\* C15: no path has two buffer records, and PlayMusic or PlaySoundEffect on a
\* path that has a buffer record reuses it: it finds the record, runs no
\* decoder, succeeds and creates one instance.
C15_OneRecordPerPath ==
    [][(/\ lastCall'.op \in {"PlayMusic", "PlaySoundEffect"}
        /\ lastCall'.init
        /\ RecordsOf(m_AudioBuffers, m_LastKeyGeneration'.path) # {}) =>
           /\ lastCall'.hadBuffer
           /\ lastCall'.decoders = <<>>
           /\ lastCall'.ret
           /\ nextInst' = nextInst + 1
           /\ \A path \in Paths : Cardinality(RecordsOf(m_AudioBuffers', path)) <= 1
      ]_vars

\* C16: a fade that has been started is driven to completion by the public
\* operations a host goes on calling, with no new PlayMusic or FadeInMusic
\* and no free: IsMusicFading() becomes false with the gain at the target.
C16_FadeCanComplete ==
    m_MusicFading ~>
        (/\ ~m_MusicFading
         /\ IsSource(alSources, m_CurrentMusicSource)
         /\ alSources[m_CurrentMusicSource].gain = m_FadeTargetVolume)

\* no step of the public host ends a fade, so no sequence of them does
FadeNeverEndsInPublic == [][m_MusicFading => m_MusicFading']_vars

\* the current music handle names a playback instance in the given play state
MusicIn(states) ==
    /\ m_CurrentMusicSource # 0
    /\ IsSource(alSources, m_CurrentMusicSource)
    /\ alSources[m_CurrentMusicSource].state \in states

\* C17: with a current music instance that is playing, paused or stopped,
\* OperateCurrentMusic has taken effect when it returns: kPause of a playing
\* piece makes IsMusicPaused() true and IsMusicPlaying() false, kResume of a
\* paused one makes IsMusicPlaying() true and IsMusicPaused() false, kStop
\* makes both false, kReplay makes IsMusicPlaying() true from each of the
\* three states; and the current handle, key and instance stay the same.
C17_MusicStateMachine ==
    [][\A action \in StateMachineActions :
         (MusicIn({"playing", "paused", "stopped"}) /\ OperateCurrentMusic(action)) =>
            LET before == alSources[m_CurrentMusicSource].state IN
            /\ CASE action = "kPause" /\ before = "playing" ->
                     IsMusicPausedResults' = {TRUE} /\ IsMusicPlayingResults' = {FALSE}
                 [] action = "kResume" /\ before = "paused" ->
                     IsMusicPlayingResults' = {TRUE} /\ IsMusicPausedResults' = {FALSE}
                 [] action = "kStop" ->
                     IsMusicPlayingResults' = {FALSE} /\ IsMusicPausedResults' = {FALSE}
                 [] action = "kReplay" ->
                     IsMusicPlayingResults' = {TRUE} /\ IsMusicPausedResults' = {FALSE}
                 [] OTHER -> TRUE
            /\ m_CurrentMusicSource' = m_CurrentMusicSource
            /\ m_CurrentMusicPathKey' = m_CurrentMusicPathKey
            /\ IsSource(alSources', m_CurrentMusicSource)
            /\ alSources'[m_CurrentMusicSource].inst =
                 alSources[m_CurrentMusicSource].inst]_vars

\* a pause of the playing current music has just returned
C17_Witness ==
    /\ lastCall.op = "OperateCurrentMusic"
    /\ MusicIn({"paused"})
    /\ m_MusicPaused

\* C18: OperateCurrentSounds skips the current music instance, whatever its
\* play state: the instance exists after the call as before it, with the
\* same play state, gain and looping flag, and the current-music key and
\* handle are unchanged.
C18_SoundsSkipMusic ==
    [][(/\ MusicIn({"initial", "playing", "paused", "stopped"})
        /\ lastCall'.op = "OperateCurrentSounds") =>
          /\ m_CurrentMusicSource' = m_CurrentMusicSource
          /\ m_CurrentMusicPathKey' = m_CurrentMusicPathKey
          /\ alSources'[m_CurrentMusicSource] = alSources[m_CurrentMusicSource]]_vars

\* C19: at the teardown of the backend no playback instance is deleted a
\* second time (every name handed to alDeleteSources still names an
\* instance, none deleted before by a PlayMusic replacement, a sweep or a
\* free-by-key), and after it no playback instance and no decoded buffer is
\* left undeleted.
C19_DeletedExactlyOnce ==
    [][lastCall'.op = "~OpenALAudio" =>
         /\ lastCall'.invalid = 0
         /\ \A h \in Handles : ~IsSource(alSources', h)
         /\ alBuffers' = {}]_vars

\* the part of C19 the code keeps: nothing is left undeleted after teardown
NothingLeftAfterTeardown ==
    lastCall.op = "~OpenALAudio" =>
        (\A h \in Handles : ~IsSource(alSources, h)) /\ alBuffers = {}

\* the names of a list that stand for a playback instance, in list order
LiveOf(sources, al) == SelectSeq(sources, LAMBDA h : IsSource(al, h))

\* the names of a list that stand for an instance that is not stopped
UnstoppedOf(sources, al) ==
    SelectSeq(sources, LAMBDA h : IsSource(al, h) /\ al[h].state # "stopped")

\* the names of a list that stand for a stopped instance
StoppedIn(sources, al) ==
    {h \in Handles : /\ IsSource(al, h)
                     /\ al[h].state = "stopped"
                     /\ \E i \in 1..Len(sources) : sources[i] = h}

\* every buffer record is kept; each list loses the instances that were
\* stopped, which are deleted, and keeps the others, in their order and in
\* existence
SweepExact ==
    /\ DOMAIN m_AudioBuffers' = DOMAIN m_AudioBuffers
    /\ \A k \in DOMAIN m_AudioBuffers :
         LET before == m_AudioBuffers[k].sources
             after  == m_AudioBuffers'[k].sources
         IN /\ LiveOf(after, alSources) = UnstoppedOf(before, alSources)
            /\ \A h \in StoppedIn(before, alSources) : ~IsSource(alSources', h)
            /\ \A i \in 1..Len(after) :
                 IsSource(alSources, after[i]) =>
                     /\ IsSource(alSources', after[i])
                     /\ alSources'[after[i]].inst = alSources[after[i]].inst

\* C20: the cleanup sweep at the start of OperateCurrentSounds keeps every
\* buffer record, removes from each list exactly the instances that were
\* stopped, which are deleted, and leaves the instances that were playing,
\* paused or in the initial state in the list, in their original order.
C20_SweepRemovesStopped ==
    [][(m_Initialized /\ lastCall'.op = "OperateCurrentSounds") => SweepExact]_vars

\* every listed name stands for an instance and is listed once
ListsClean ==
    LET all == AllSources(m_AudioBuffers,
                          CHOOSE o \in Orders(m_AudioBuffers) : TRUE)
    IN /\ \A i \in 1..Len(all) : IsSource(alSources, all[i])
       /\ \A i, j \in 1..Len(all) : i # j => all[i] # all[j]

\* the sweep does what C20 says when no list holds the name of a deleted
\* instance or a name twice
SweepExactOnCleanLists ==
    [][(m_Initialized /\ ListsClean /\ lastCall'.op = "OperateCurrentSounds")
          => SweepExact]_vars

\* a float in [0.0, 1.0]
InUnit(v) == ~F32Lt(v, F32Zero) /\ ~F32Lt(F32One, v)

\* the stored volume one step of 0.1 up or down, saturating at 1.0 and 0.0
Stepped(action, v) ==
    IF action = "kVolumeUp" THEN F32Min(F32Add(v, F32Tenth), F32One)
    ELSE F32Max(F32Sub(v, F32Tenth), F32Zero)

\* the stored music volume is in [0.0, 1.0] and GetMusicVolume() in [0, 100]
VolumeInRange ==
    /\ InUnit(m_MusicVolume)
    /\ GetMusicVolumeResults \subseteq 0..GetMaxVolume

\* C21 as stated: the stored volume stays in [0.0, 1.0] and GetMusicVolume()
\* in [0, 100], and every kVolumeUp / kVolumeDown changes the stored volume by
\* one step of 0.1, saturating at 1.0 and 0.0.
C21_VolumeStepsAlways ==
    /\ []VolumeInRange
    /\ [][\A action \in {"kVolumeUp", "kVolumeDown"} :
            OperateCurrentMusic(action) =>
                m_MusicVolume' = Stepped(action, m_MusicVolume)]_vars

\* C21 as amended: the ranges hold, and kVolumeUp / kVolumeDown step the
\* stored volume by 0.1, saturating, when there is a current music handle;
\* with none the call leaves the stored volume as it is.
C21_VolumeStepsWithMusic ==
    /\ []VolumeInRange
    /\ [][\A action \in {"kVolumeUp", "kVolumeDown"} :
            OperateCurrentMusic(action) =>
                /\ InUnit(m_MusicVolume')
                /\ m_MusicVolume' = IF m_CurrentMusicSource # 0
                                    THEN Stepped(action, m_MusicVolume)
                                    ELSE m_MusicVolume
                /\ m_CurrentMusicSource # 0 /\ IsSource(alSources, m_CurrentMusicSource)
                     => alSources'[m_CurrentMusicSource].gain = m_MusicVolume']_vars

\* C21 witness: after a volume step on a current music instance the stored
\* volume and the gain are at 1.0, where kVolumeUp saturates, and
\* GetMusicVolume() is 100
C21_Witness ==
    /\ volSteps > 0
    /\ lastCall.op = "OperateCurrentMusic"
    /\ m_CurrentMusicSource # 0
    /\ m_MusicVolume = F32One
    /\ alSources[m_CurrentMusicSource].gain = F32One
    /\ GetMusicVolumeResults = {GetMaxVolume}

\* max(1, ceil(ms / 16)), one for ms <= 0
ExpectedTicks(ms) == IF ms <= 0 THEN 1 ELSE (ms + 15) \div 16

\* the fade update has been called lastCall.ticks times since a fade request
\* on a current music instance, with no other operation in between
FadeTicked ==
    /\ lastCall.op = "UpdateFading"
    /\ lastCall.fade \in {"in", "out"}
    /\ m_CurrentMusicSource # 0

\* C22: after a fade request of duration ms followed by fade update ticks
\* only, IsMusicFading() is true before max(1, ceil(ms / 16)) ticks and false
\* from that tick on.
C22_FadeTicksExact ==
    FadeTicked => (IsMusicFading <=> lastCall.ticks < ExpectedTicks(lastCall.ms))

\* a tick of a fade under way brings the remaining time down
TickMakesProgress ==
    [][(m_MusicFading /\ m_CurrentMusicSource # 0 /\ lastCall'.op = "UpdateFading")
          => F32Lt(m_FadeTimeRemaining', m_FadeTimeRemaining)]_vars

\* fades of up to 40 ms end at the tick C22 names
ShortFadeTicksExact ==
    (FadeTicked /\ lastCall.ms <= 40) =>
        (IsMusicFading <=> lastCall.ticks < ExpectedTicks(lastCall.ms))

\* a <= b
F32Le(a, b) == ~F32Lt(b, a)

\* v lies between a and b inclusive, whichever of the two is the larger
Between(v, a, b) == (F32Le(a, v) /\ F32Le(v, b)) \/ (F32Le(b, v) /\ F32Le(v, a))

\* a tick of a fade under way on a music instance that does not complete it
TickUnderWay ==
    /\ lastCall'.op = "UpdateFading"
    /\ m_MusicFading
    /\ IsSource(alSources, m_CurrentMusicSource)
    /\ m_MusicFading'

\* what C23 says of such a tick, but for the upper end of the range of t:
\* the divisor is positive, t is not negative, the gain applied lies between
\* the start and the target volume and is no further from the target than
\* the gain the tick before applied
TickInterpolates ==
    /\ F32Lt(F32Zero, m_FadeDuration')
    /\ F32Le(F32Zero, lastCall'.t)
    /\ Between(alSources'[m_CurrentMusicSource].gain,
               m_FadeStartVolume, m_FadeTargetVolume)
    /\ lastCall.op = "UpdateFading" =>
         Between(alSources'[m_CurrentMusicSource].gain,
                 alSources[m_CurrentMusicSource].gain, m_FadeTargetVolume)

SoundEffects(al) == {h \in Handles : IsSource(al, h) /\ ~al[h].music}

\* C24: after OperateCurrentSounds(kUnmute) every sound-effect instance has
\* gain 1.0, whatever gain it had before.
C24_UnmuteSetsFullGain ==
    [][(m_Initialized /\ OperateCurrentSounds("kUnmute")) =>
          \A h \in SoundEffects(alSources') : alSources'[h].gain = F32One]_vars

\* the current music handle is 0 or names the music instance
MusicHandleSound ==
    m_CurrentMusicSource = 0 \/ MusicInstOf(alSources, m_CurrentMusicSource) # 0

\* kUnmute does what C24 says in the states where the current music handle
\* is 0 or names the music instance
UnmuteSetsFullGainWithSoundHandle ==
    [][(m_Initialized /\ MusicHandleSound /\ OperateCurrentSounds("kUnmute")) =>
          \A h \in SoundEffects(alSources') : alSources'[h].gain = F32One]_vars

\* a fade-in that succeeded has been ticked to completion, with no other
\* operation since the request
FadeInCompleted ==
    /\ FadeTicked
    /\ lastCall.fade = "in"
    /\ ~m_MusicFading

\* C25: a fade-in that has run to completion leaves the music playing, at
\* every stored music volume and duration: the fade has not stopped the
\* instance and has not invoked the finished-music callback.
C25_FadeInLeavesPlaying ==
    FadeInCompleted =>
        /\ IsSource(alSources, m_CurrentMusicSource)
        /\ alSources[m_CurrentMusicSource].state = "playing"
        /\ IsMusicPlayingResults = {TRUE}
        /\ lastCall.callbacks = 0

\* a completed fade-in to a stored volume above 0 leaves the music playing
FadeInAboveZeroLeavesPlaying ==
    (FadeInCompleted /\ m_FadeTargetVolume # F32Zero) =>
        /\ alSources[m_CurrentMusicSource].state = "playing"
        /\ lastCall.callbacks = 0

\* C26: IsMusicFading() is true only while there is a current music handle:
\* m_MusicFading implies m_CurrentMusicSource # 0 in every reachable state.
C26_FadingHasMusic == IsMusicFading => m_CurrentMusicSource # 0

\* GetSoundVolume or SetSoundVolume has just returned for a path that had no
\* buffer record
VolumeByPathWithoutRecord ==
    /\ lastCall'.op \in {"GetSoundVolume", "SetSoundVolume"}
    /\ ~lastCall'.hadBuffer

\* C27: GetSoundVolume(P) and SetSoundVolume(P, v) for a path with no buffer
\* record leave the path->key table, the next-key counter, the buffer table
\* and the current-music state unchanged.
C27_VolumeByPathReadOnly ==
    [][VolumeByPathWithoutRecord =>
          UNCHANGED <<m_AudioKeyToPath, m_NextAudioKey, m_AudioBuffers, musicVars>>]_vars

\* the part of C27 the code keeps: the buffer table, the current-music state
\* and the playback instances are left alone
VolumeByPathKeepsBuffers ==
    [][VolumeByPathWithoutRecord => UNCHANGED <<m_AudioBuffers, musicVars, alVars>>]_vars

=============================================================================
